---- MODULE Spec2Model ----
(***************************************************************************)
(* enveloper: the composite key grammar of SecretStore (store.py) and the  *)
(* manifest / domain-registry protocol of KeychainStore (keychain.py).     *)
(*                                                                         *)
(* Python strings are TLA+ strings; a character is a string of length 1.   *)
(* A Python None result is the record None, a returned string v is         *)
(* Some(v).  A store constructed with domain=None is the store whose       *)
(* domain is "": the code only ever tests the domain for truthiness.       *)
(***************************************************************************)
EXTENDS Integers, Sequences, FiniteSets, TLC

VARIABLES
    keyring,    \* the OS keychain: <<service, username>> -> password
    stores,     \* the KeychainStore objects that have been constructed
    last,       \* the operation that ran last on the keychain
    task,       \* key grammar: the call that is being evaluated, with its arguments
    out,        \* what the call returned, step by step; the exception an operation ended with
    procs,      \* concurrent invocations: each one's operation, position and local variables
    backend     \* a cloud backend or the file system: parameter, secret or file name -> content

vars == <<keyring, stores, last, task, out, procs, backend>>

(***************************************************************************)
(* Strings                                                                 *)
(***************************************************************************)

Char(s, i) == SubSeq(s, i, i)

\* The characters the model uses, in code point order (Python compares
\* strings by code point).
CodeOrder == " \"+,-./0123456789:ABCDEFGHIJKLMNOPQRSTUVWXYZ[\\]_abcdefghijklmnopqrstuvwxyz"

Ord(c) == CHOOSE i \in 1..Len(CodeOrder) : Char(CodeOrder, i) = c

RECURSIVE StrLess(_, _)
\* a < b for Python strings
StrLess(a, b) ==
    IF b = "" THEN FALSE
    ELSE IF a = "" THEN TRUE
    ELSE IF Char(a, 1) = Char(b, 1) THEN StrLess(Tail(a), Tail(b))
    ELSE Ord(Char(a, 1)) < Ord(Char(b, 1))

InSeq(x, seq) == \E i \in 1..Len(seq) : seq[i] = x

SeqToSet(seq) == {seq[i] : i \in 1..Len(seq)}

RECURSIVE sorted(_)
\* sorted(S) of a set of strings
sorted(S) ==
    IF S = {} THEN <<>>
    ELSE LET m == CHOOSE x \in S : \A y \in S \ {x} : StrLess(x, y)
         IN  <<m>> \o sorted(S \ {m})

RECURSIVE sorted_list(_)
\* sorted(l) of a list of strings, duplicates kept
sorted_list(l) ==
    IF l = <<>> THEN <<>>
    ELSE LET i == CHOOSE j \in 1..Len(l) : \A k \in 1..Len(l) : ~StrLess(l[k], l[j])
         IN  <<l[i]>> \o sorted_list(SubSeq(l, 1, i - 1) \o SubSeq(l, i + 1, Len(l)))

\* list.remove(x): the first occurrence goes
remove(l, x) ==
    LET i == CHOOSE j \in 1..Len(l) : l[j] = x /\ \A k \in 1..(j - 1) : l[k] # x
    IN  SubSeq(l, 1, i - 1) \o SubSeq(l, i + 1, Len(l))

None == [found |-> FALSE, value |-> ""]

Some(v) == [found |-> TRUE, value |-> v]

(***************************************************************************)
(* json.dumps / json.loads on a list of strings                            *)
(***************************************************************************)

RECURSIVE json_escape(_)
json_escape(s) ==
    IF s = "" THEN ""
    ELSE LET c == Char(s, 1)
         IN  (IF c = "\"" \/ c = "\\" THEN "\\" \o c ELSE c) \o json_escape(Tail(s))

RECURSIVE json_items(_)
json_items(l) ==
    IF l = <<>> THEN ""
    ELSE "\"" \o json_escape(l[1]) \o "\""
         \o (IF Len(l) > 1 THEN ", " ELSE "") \o json_items(Tail(l))

\* json.dumps(l): ["A", "B"]
json_dumps(l) == "[" \o json_items(l) \o "]"

RECURSIVE skip_ws(_, _)
skip_ws(raw, i) ==
    IF i <= Len(raw) /\ Char(raw, i) = " " THEN skip_ws(raw, i + 1) ELSE i

JsonFail == [ok |-> FALSE, val |-> "", next |-> 0]

RECURSIVE json_string(_, _, _)
\* The string literal whose opening quote is before position i.
json_string(raw, i, acc) ==
    IF i > Len(raw) THEN JsonFail
    ELSE LET c == Char(raw, i)
         IN  IF c = "\"" THEN [ok |-> TRUE, val |-> acc, next |-> i + 1]
             ELSE IF c = "\\"
                  THEN IF i + 1 <= Len(raw) /\ Char(raw, i + 1) \in {"\"", "\\", "/"}
                       THEN json_string(raw, i + 2, acc \o Char(raw, i + 1))
                       ELSE JsonFail
             ELSE json_string(raw, i + 1, acc \o c)

RECURSIVE json_array(_, _, _)
\* The elements of an array from position i on, at the start of an element.
json_array(raw, i, acc) ==
    IF i > Len(raw) \/ Char(raw, i) # "\"" THEN [ok |-> FALSE, list |-> <<>>]
    ELSE LET s == json_string(raw, i + 1, "")
             j == skip_ws(raw, s.next)
         IN  IF ~s.ok \/ j > Len(raw) THEN [ok |-> FALSE, list |-> <<>>]
             ELSE IF Char(raw, j) = "]"
                  THEN [ok |-> skip_ws(raw, j + 1) > Len(raw), list |-> Append(acc, s.val)]
             ELSE IF Char(raw, j) = ","
                  THEN json_array(raw, skip_ws(raw, j + 1), Append(acc, s.val))
             ELSE [ok |-> FALSE, list |-> <<>>]

\* json.loads(raw): the text of an array of strings parses to its list, and
\* a text that is no JSON raises JSONDecodeError (ok is FALSE).  Texts of
\* other JSON values (a number, an object) are not told apart from the
\* latter: no manifest or registry of the specifications below holds one.
json_loads(raw) ==
    LET i == skip_ws(raw, 1)
    IN  IF i > Len(raw) \/ Char(raw, i) # "[" THEN [ok |-> FALSE, list |-> <<>>]
        ELSE LET j == skip_ws(raw, i + 1)
             IN  IF j <= Len(raw) /\ Char(raw, j) = "]"
                 THEN [ok |-> skip_ws(raw, j + 1) > Len(raw), list |-> <<>>]
                 ELSE json_array(raw, j, <<>>)

(***************************************************************************)
(* str methods the key grammar uses                                        *)
(***************************************************************************)

RECURSIVE replace(_, _, _)
\* s.replace(old, new): the occurrences of old, left to right, none overlapping
replace(s, old, new) ==
    IF Len(s) < Len(old) THEN s
    ELSE IF SubSeq(s, 1, Len(old)) = old
         THEN new \o replace(SubSeq(s, Len(old) + 1, Len(s)), old, new)
         ELSE Char(s, 1) \o replace(Tail(s), old, new)

RECURSIVE split_from(_, _, _)
split_from(s, sep, cur) ==
    IF Len(s) < Len(sep) THEN <<cur \o s>>
    ELSE IF SubSeq(s, 1, Len(sep)) = sep
         THEN <<cur>> \o split_from(SubSeq(s, Len(sep) + 1, Len(s)), sep, "")
         ELSE split_from(Tail(s), sep, cur \o Char(s, 1))

\* s.split(sep)
split(s, sep) == split_from(s, sep, "")

Whitespace == {" ", "\t", "\n", "\r"}

RECURSIVE lstrip_set(_, _)
lstrip_set(s, C) ==
    IF s # "" /\ Char(s, 1) \in C THEN lstrip_set(Tail(s), C) ELSE s

RECURSIVE rstrip_set(_, _)
rstrip_set(s, C) ==
    IF s # "" /\ Char(s, Len(s)) \in C THEN rstrip_set(SubSeq(s, 1, Len(s) - 1), C) ELSE s

\* s.strip()
strip(s) == rstrip_set(lstrip_set(s, Whitespace), Whitespace)

\* s.strip(chars): chars is a set of characters, each removed from both ends
strip_chars(s, chars) ==
    LET C == {Char(chars, i) : i \in 1..Len(chars)}
    IN  rstrip_set(lstrip_set(s, C), C)

\* sep in s
contains(s, sep) == \E i \in 1..(Len(s) - Len(sep) + 1) : SubSeq(s, i, i + Len(sep) - 1) = sep

(***************************************************************************)
(* is_valid_semver: _SEMVER_PATTERN.match(version)                         *)
(***************************************************************************)

Digits == {"0", "1", "2", "3", "4", "5", "6", "7", "8", "9"}

Letters == {Char(CodeOrder, i) : i \in 1..Len(CodeOrder)} \ (Digits \cup
           {" ", "\"", "+", ",", "-", ".", "/", ":", "[", "\\", "]", "_"})

AllIn(s, C) == \A i \in 1..Len(s) : Char(s, i) \in C

\* 0|[1-9]\d*
numeric_id(s) == s # "" /\ AllIn(s, Digits) /\ (Len(s) > 1 => Char(s, 1) # "0")

\* 0|[1-9]\d*|\d*[a-zA-Z-][0-9a-zA-Z-]*
prerelease_id(s) ==
    /\ s # ""
    /\ AllIn(s, Digits \cup Letters \cup {"-"})
    /\ (AllIn(s, Digits) => numeric_id(s))

\* [0-9a-zA-Z-]+
build_id(s) == s # "" /\ AllIn(s, Digits \cup Letters \cup {"-"})

\* The index of the first c in s, or 0.
index_of(s, c) ==
    IF \E i \in 1..Len(s) : Char(s, i) = c
    THEN CHOOSE i \in 1..Len(s) : Char(s, i) = c /\ \A j \in 1..(i - 1) : Char(s, j) # c
    ELSE 0

\* The pattern's final $ also matches before one trailing newline.
is_valid_semver(version) ==
    LET v == IF version # "" /\ Char(version, Len(version)) = "\n"
             THEN SubSeq(version, 1, Len(version) - 1) ELSE version
        plus == index_of(v, "+")
        main == IF plus = 0 THEN v ELSE SubSeq(v, 1, plus - 1)
        build == IF plus = 0 THEN "" ELSE SubSeq(v, plus + 1, Len(v))
        dash == index_of(main, "-")
        core == IF dash = 0 THEN main ELSE SubSeq(main, 1, dash - 1)
        pre == IF dash = 0 THEN "" ELSE SubSeq(main, dash + 1, Len(main))
        nums == split(core, ".")
    IN  /\ Len(nums) = 3
        /\ \A i \in 1..3 : numeric_id(nums[i])
        /\ (dash # 0 => LET ids == split(pre, ".")
                        IN  \A i \in 1..Len(ids) : prerelease_id(ids[i]))
        /\ (plus # 0 => LET ids == split(build, ".")
                        IN  \A i \in 1..Len(ids) : build_id(ids[i]))

(***************************************************************************)
(* SecretStore: the key grammar, parameterised by the class attributes     *)
(***************************************************************************)

DEFAULT_PREFIX == "envr"

DEFAULT_VERSION == "1.0.0"

DEFAULT_NAMESPACE == "_default_"

\* The class attributes of SecretStore, which a store class overrides.
SecretStore ==
    [service_name |-> "", key_separator |-> "/", version_separator |-> ".",
     prefix |-> DEFAULT_PREFIX, default_namespace |-> DEFAULT_NAMESPACE]

\* VaultStore and FileStore declare the same four attributes as AwsSsmStore.
AwsSsmStore == [SecretStore EXCEPT !.service_name = "aws"]

KeychainStore == [SecretStore EXCEPT !.service_name = "local", !.version_separator = "_"]

\* AliyunSmStore declares the same four attributes as GcpSmStore.
GcpSmStore == [SecretStore EXCEPT !.service_name = "gcp", !.key_separator = "--"]

AzureKvStore ==
    [SecretStore EXCEPT !.service_name = "azure", !.key_separator = "--",
                        !.default_namespace = "default"]

GitHubStore ==
    [SecretStore EXCEPT !.service_name = "github", !.key_separator = "__",
                        !.version_separator = "_", !.prefix = "ENVR"]

StoreClasses == {AwsSsmStore, KeychainStore, GcpSmStore, AzureKvStore, GitHubStore}

_get_prefix(cls) == cls.prefix

\* sanitize_key_segment as it would be were the key separator left in place
sanitize_keeps_separator(cls, value) ==
    IF value = "" \/ strip(value) = "" THEN cls.default_namespace
    ELSE LET sanitized == replace(value, "\\", "_")
         IN  IF strip(sanitized) # "" THEN strip(sanitized) ELSE cls.default_namespace

sanitize_key_segment(cls, value) ==
    IF value = "" \/ strip(value) = "" THEN cls.default_namespace
    ELSE LET sanitized == replace(replace(value, cls.key_separator, "_"), "\\", "_")
         IN  IF strip(sanitized) # "" THEN strip(sanitized) ELSE cls.default_namespace

\* build_key as it would be with project and domain in each other's place
build_key_project_first(cls, name, project, domain, version) ==
    _get_prefix(cls) \o cls.key_separator \o sanitize_key_segment(cls, project)
    \o cls.key_separator \o sanitize_key_segment(cls, domain) \o cls.key_separator
    \o replace(version, ".", cls.version_separator) \o cls.key_separator
    \o sanitize_key_segment(cls, name)

build_key(cls, name, project, domain, version) ==
    LET name_safe == sanitize_key_segment(cls, name)
        project_safe == sanitize_key_segment(cls, project)
        domain_safe == sanitize_key_segment(cls, domain)
        version_safe == replace(version, ".", cls.version_separator)
        prefix == _get_prefix(cls)
    IN  prefix \o cls.key_separator \o domain_safe \o cls.key_separator
        \o project_safe \o cls.key_separator \o version_safe \o cls.key_separator \o name_safe

\* The dict parse_key returns, given the segments.
Parsed(parts) ==
    LET n == Len(parts)
    IN  [prefix |-> parts[n - 4], domain |-> parts[n - 3], project |-> parts[n - 2],
         version |-> replace(parts[n - 1], "_", "."), name |-> parts[n]]

\* parse_key as it would be were the first five segments taken
parse_key_first_five(cls, key) ==
    LET sep == cls.key_separator
        stripped == strip_chars(key, sep)
        parts == split(stripped, sep)
    IN  IF stripped = "" THEN None
        ELSE IF Len(parts) < 5 THEN None
        ELSE Some(Parsed(SubSeq(parts, 1, 5)))

parse_key(cls, key) ==
    LET sep == cls.key_separator
        stripped == strip_chars(key, sep)
        parts == split(stripped, sep)
    IN  IF stripped = "" THEN None
        ELSE IF Len(parts) < 5 THEN None
        ELSE Some(Parsed(parts))

RECURSIVE rfind(_, _, _)
\* str.rfind: the greatest index at or below i where sep occurs in s, 0 if none.
rfind(s, sep, i) ==
    IF i < 1 THEN 0
    ELSE IF SubSeq(s, i, i + Len(sep) - 1) = sep THEN i
    ELSE rfind(s, sep, i - 1)

\* key.rsplit(sep, 1)[-1]: what follows the rightmost occurrence of sep.
rsplit_last(s, sep) ==
    LET i == rfind(s, sep, Len(s) - Len(sep) + 1)
    IN  IF i = 0 THEN s ELSE SubSeq(s, i + Len(sep), Len(s))

\* key_to_export_name as it would be were the key never parsed
key_to_export_name_unparsed(cls, key) ==
    IF contains(key, cls.key_separator) THEN rsplit_last(key, cls.key_separator)
    ELSE key

key_to_export_name(cls, key) ==
    LET parsed == parse_key(cls, key)
    IN  IF parsed.found THEN parsed.value.name
        ELSE IF contains(key, cls.key_separator) THEN rsplit_last(key, cls.key_separator)
        ELSE key

(***************************************************************************)
(* The constructors of the adapters that take a version.  A construction   *)
(* ends with the error it raised ("" when it returned the store) and the   *)
(* calls it made to the backend or to an external tool.                    *)
(***************************************************************************)

Constructed(error, calls) == [error |-> error, calls |-> calls]

\* __init__ of an adapter that checks its version first
init_validating(version) ==
    IF ~is_valid_semver(version) THEN Constructed("ValueError", << >>)
    ELSE Constructed("", << >>)

KeychainStore_init(version) == init_validating(version)

AwsSsmStore_init(version) == init_validating(version)

\* gh: whether shutil.which finds the gh command
GitHubStore_init(version, gh) ==
    IF ~is_valid_semver(version) THEN Constructed("ValueError", << >>)
    ELSE IF ~gh THEN Constructed("RuntimeError", <<"shutil.which">>)
    ELSE Constructed("", <<"shutil.which">>)

VaultStore_init(version) == Constructed("", << >>)

GcpSmStore_init(version) == Constructed("", << >>)

AzureKvStore_init(version) == Constructed("", << >>)

AliyunSmStore_init(version) == Constructed("", << >>)

Adapters == {"KeychainStore", "AwsSsmStore", "GitHubStore", "VaultStore",
             "GcpSmStore", "AzureKvStore", "AliyunSmStore"}

construct(adapter, version, gh) ==
    CASE adapter = "KeychainStore" -> KeychainStore_init(version)
      [] adapter = "AwsSsmStore" -> AwsSsmStore_init(version)
      [] adapter = "GitHubStore" -> GitHubStore_init(version, gh)
      [] adapter = "VaultStore" -> VaultStore_init(version)
      [] adapter = "GcpSmStore" -> GcpSmStore_init(version)
      [] adapter = "AzureKvStore" -> AzureKvStore_init(version)
      [] adapter = "AliyunSmStore" -> AliyunSmStore_init(version)

(***************************************************************************)
(* The keyring backend                                                     *)
(***************************************************************************)

get_password(kr, service, username) ==
    IF <<service, username>> \in DOMAIN kr THEN Some(kr[<<service, username>>]) ELSE None

set_password(kr, service, username, password) ==
    [e \in DOMAIN kr \cup {<<service, username>>} |->
        IF e = <<service, username>> THEN password ELSE kr[e]]

\* keyring.delete_password raises PasswordDeleteError on a missing entry;
\* every caller catches it, which leaves the keyring as it was.
delete_password(kr, service, username) ==
    [e \in DOMAIN kr \ {<<service, username>>} |-> kr[e]]

\* The exception keyring.delete_password raises ("" when it raises none).
delete_password_error(kr, service, username) ==
    IF <<service, username>> \in DOMAIN kr THEN "" ELSE "PasswordDeleteError"

\* try: ... except keyring.errors.PasswordDeleteError: pass
except_PasswordDeleteError(e) == IF e = "PasswordDeleteError" THEN "" ELSE e

\* The exception a sequence of steps ends with: that of the first step that raises.
first_error(errors) ==
    LET raised == SelectSeq(errors, LAMBDA e : e # "")
    IN  IF raised = <<>> THEN "" ELSE raised[1]

(***************************************************************************)
(* KeychainStore                                                           *)
(***************************************************************************)

MANIFEST_KEY == "__keys__"

DOMAINS_KEY == "__domains__"

_service(s) == KeychainStore.prefix \o ":" \o s.project

_username(s, key) ==
    IF s.domain # "" THEN s.domain \o "/" \o s.version \o "/" \o key
    ELSE s.version \o "/" \o key

\* domain = "" is the call without a domain argument
_manifest_username(s, domain) ==
    LET d == IF domain # "" THEN domain
             ELSE IF s.domain # "" THEN s.domain ELSE "_global"
    IN  d \o "/" \o MANIFEST_KEY

_read_manifest(kr, s, domain) ==
    LET raw == get_password(kr, _service(s), _manifest_username(s, domain))
    IN  IF ~raw.found THEN <<>>
        ELSE LET parsed == json_loads(raw.value)
             IN  IF parsed.ok THEN parsed.list ELSE <<>>

\* _write_manifest as it would be with the list written as it is
_write_manifest_unsorted(kr, s, keys, domain) ==
    set_password(kr, _service(s), _manifest_username(s, domain), json_dumps(keys))

_write_manifest(kr, s, keys, domain) ==
    set_password(kr, _service(s), _manifest_username(s, domain),
                 json_dumps(sorted(SeqToSet(keys))))

get(kr, s, key) == get_password(kr, _service(s), _username(s, key))

list_keys(kr, s) == _read_manifest(kr, s, "")

list_domains(kr, s) ==
    LET raw == get_password(kr, _service(s), DOMAINS_KEY)
    IN  IF ~raw.found THEN <<>>
        ELSE LET parsed == json_loads(raw.value)
             IN  IF parsed.ok THEN parsed.list ELSE <<>>

\* register_domain as it would be without the test for a registered domain
register_domain_unchecked(kr, s, domain) ==
    set_password(kr, _service(s), DOMAINS_KEY,
                 json_dumps(sorted_list(Append(list_domains(kr, s), domain))))

register_domain(kr, s, domain) ==
    LET domains == list_domains(kr, s)
    IN  IF ~InSeq(domain, domains)
        THEN set_password(kr, _service(s), DOMAINS_KEY,
                          json_dumps(sorted_list(Append(domains, domain))))
        ELSE kr

\* unregister_domain as it would be were the whole registry entry deleted
unregister_domain_all(kr, s, domain) ==
    IF ~InSeq(domain, list_domains(kr, s)) THEN kr
    ELSE delete_password(kr, _service(s), DOMAINS_KEY)

unregister_domain(kr, s, domain) ==
    LET domains == list_domains(kr, s)
        rest == SelectSeq(domains, LAMBDA d : d # domain)
    IN  IF ~InSeq(domain, domains) THEN kr
        ELSE IF rest # <<>>
             THEN set_password(kr, _service(s), DOMAINS_KEY, json_dumps(sorted_list(rest)))
             ELSE delete_password(kr, _service(s), DOMAINS_KEY)

\* The exception unregister_domain ends with.
unregister_domain_error(kr, s, domain) ==
    LET domains == list_domains(kr, s)
        rest == SelectSeq(domains, LAMBDA d : d # domain)
    IN  IF ~InSeq(domain, domains) THEN ""
        ELSE IF rest # <<>> THEN ""
        ELSE except_PasswordDeleteError(delete_password_error(kr, _service(s), DOMAINS_KEY))

\* set_secret as it would be were the secret written after the manifest
set_secret_deferred(kr, s, key, value) == kr

\* The first statement of set: the secret is written.
set_secret(kr, s, key, value) == set_password(kr, _service(s), _username(s, key), value)

\* set_write_manifest as it would be were the manifest read again when written
set_write_manifest_reread(kr, s, key, manifest) ==
    LET now == _read_manifest(kr, s, "")
    IN  IF ~InSeq(key, now) THEN _write_manifest(kr, s, Append(now, key), "") ELSE kr

\* The last statements of set: the manifest that was read is written back
\* with the name in it, unless it held the name.
set_write_manifest(kr, s, key, manifest) ==
    IF ~InSeq(key, manifest) THEN _write_manifest(kr, s, Append(manifest, key), "") ELSE kr

set(kr, s, key, value) ==
    LET kr1 == set_password(kr, _service(s), _username(s, key), value)
        manifest == _read_manifest(kr1, s, "")
    IN  IF ~InSeq(key, manifest)
        THEN _write_manifest(kr1, s, Append(manifest, key), "")
        ELSE kr1

\* delete as it would be were the manifest left alone
delete_secret_only(kr, s, key) == delete_password(kr, _service(s), _username(s, key))

delete(kr, s, key) ==
    LET kr1 == delete_password(kr, _service(s), _username(s, key))
        manifest == _read_manifest(kr1, s, "")
    IN  IF InSeq(key, manifest)
        THEN LET left == remove(manifest, key)
                 kr2 == _write_manifest(kr1, s, left, "")
             IN  IF left = <<>> /\ s.domain # ""
                 THEN unregister_domain(kr2, s, s.domain)
                 ELSE kr2
        ELSE kr1

\* delete_error as it would be were PasswordDeleteError not caught
delete_error_uncaught(kr, s, key) ==
    delete_password_error(kr, _service(s), _username(s, key))

\* The exception delete ends with.
delete_error(kr, s, key) ==
    LET e1 == except_PasswordDeleteError(
                  delete_password_error(kr, _service(s), _username(s, key)))
        kr1 == delete_password(kr, _service(s), _username(s, key))
        manifest == _read_manifest(kr1, s, "")
        left == remove(manifest, key)
        kr2 == _write_manifest(kr1, s, left, "")
    IN  IF InSeq(key, manifest) /\ left = <<>> /\ s.domain # ""
        THEN first_error(<<e1, unregister_domain_error(kr2, s, s.domain)>>)
        ELSE e1

RECURSIVE delete_all(_, _, _)
\* the loop of clear(): each listed secret is deleted
delete_all(kr, s, keys) ==
    IF keys = <<>> THEN kr
    ELSE delete_all(delete_password(kr, _service(s), _username(s, keys[1])), s, Tail(keys))

\* clear as it would be were the manifest entry left in the keyring
clear_keeps_manifest(kr, s) ==
    LET kr1 == delete_all(kr, s, _read_manifest(kr, s, ""))
    IN  IF s.domain # "" THEN unregister_domain(kr1, s, s.domain) ELSE kr1

clear(kr, s) ==
    LET kr1 == delete_all(kr, s, _read_manifest(kr, s, ""))
        kr2 == delete_password(kr1, _service(s), _manifest_username(s, ""))
    IN  IF s.domain # "" THEN unregister_domain(kr2, s, s.domain) ELSE kr2

RECURSIVE delete_all_errors(_, _, _)
\* the exceptions of the loop of clear(), one for each listed secret
delete_all_errors(kr, s, keys) ==
    IF keys = <<>> THEN <<>>
    ELSE <<except_PasswordDeleteError(
               delete_password_error(kr, _service(s), _username(s, keys[1])))>>
         \o delete_all_errors(delete_password(kr, _service(s), _username(s, keys[1])),
                              s, Tail(keys))

\* The exception clear ends with.
clear_error(kr, s) ==
    LET keys == _read_manifest(kr, s, "")
        kr1 == delete_all(kr, s, keys)
        e2 == except_PasswordDeleteError(
                  delete_password_error(kr1, _service(s), _manifest_username(s, "")))
        kr2 == delete_password(kr1, _service(s), _manifest_username(s, ""))
        e3 == IF s.domain # "" THEN unregister_domain_error(kr2, s, s.domain) ELSE ""
    IN  first_error(delete_all_errors(kr, s, keys) \o <<e2, e3>>)

set_with_domain_tracking(kr, s, key, value) ==
    LET kr1 == set(kr, s, key, value)
    IN  IF s.domain # "" THEN register_domain(kr1, s, s.domain) ELSE kr1

(***************************************************************************)
(* The keychain as a state machine: one action per public operation, each  *)
(* run to completion (one invocation is single-threaded).                  *)
(***************************************************************************)

Projects == {"test"}

\* The domains stores are constructed with: none (""), an ordinary name, and
\* the name _manifest_username gives to the manifest of a store without a domain.
Domains == {"", "aws", "_global"}

Versions == {"1.0.0", "2.0.0"}

Keys == {"A", "B"}

Values == {"1", "2"}

\* The names delete is called with: those that are set, and one that never is.
DeleteKeys == Keys \cup {"NOPE"}

\* How many KeychainStore objects a run constructs.
MaxStores == 2

AllStores == [project : Projects, domain : Domains, version : Versions]

NoTask == [op |-> "none"]

NoCall == [op |-> "init", store |-> [project |-> "", domain |-> "", version |-> ""],
           key |-> "", value |-> ""]

Call(op, s, key, value) == [op |-> op, store |-> s, key |-> key, value |-> value]

InitKeychain ==
    /\ backend = << >>
    /\ keyring = << >>
    /\ stores \in {S \in SUBSET AllStores : Cardinality(S) \in 1..MaxStores}
    /\ last = NoCall
    /\ task = NoTask
    /\ out = << >>
    /\ procs = << >>

\* out holds the exception the operation last called ended with.
Set(s, key, value) ==
    /\ keyring' = set(keyring, s, key, value)
    /\ last' = Call("set", s, key, value)
    /\ out' = <<"">>
    /\ UNCHANGED <<backend, stores, task, procs>>

Delete(s, key) ==
    /\ keyring' = delete(keyring, s, key)
    /\ last' = Call("delete", s, key, "")
    /\ out' = <<delete_error(keyring, s, key)>>
    /\ UNCHANGED <<backend, stores, task, procs>>

Clear(s) ==
    /\ keyring' = clear(keyring, s)
    /\ last' = Call("clear", s, "", "")
    /\ out' = <<clear_error(keyring, s)>>
    /\ UNCHANGED <<backend, stores, task, procs>>

SetWithDomainTracking(s, key, value) ==
    /\ keyring' = set_with_domain_tracking(keyring, s, key, value)
    /\ last' = Call("set_with_domain_tracking", s, key, value)
    /\ out' = <<"">>
    /\ UNCHANGED <<backend, stores, task, procs>>

Next ==
    \E s \in stores :
        \/ \E key \in Keys, value \in Values : Set(s, key, value)
        \/ \E key \in DeleteKeys : Delete(s, key)
        \/ Clear(s)
        \/ \E key \in Keys, value \in Values : SetWithDomainTracking(s, key, value)

Spec == InitKeychain /\ [][Next]_vars

\* The secret's value plays no part in the registry: one value is stored.
NextTracking ==
    \E s \in stores :
        \/ \E key \in Keys : SetWithDomainTracking(s, key, "1")
        \/ \E key \in Keys : Delete(s, key)

\* Only set_with_domain_tracking and delete are called.
SpecTracking == InitKeychain /\ [][NextTracking]_vars

InitOneStore ==
    /\ backend = << >>
    /\ keyring = << >>
    /\ stores \in {{s} : s \in AllStores}
    /\ last = NoCall
    /\ task = NoTask
    /\ out = << >>
    /\ procs = << >>

NextOneStore ==
    \E s \in stores :
        \/ \E key \in Keys, value \in Values : Set(s, key, value)
        \/ \E key \in DeleteKeys : Delete(s, key)
        \/ Clear(s)

\* One KeychainStore, used with set, delete and clear.
SpecOneStore == InitOneStore /\ [][NextOneStore]_vars

\* register_domain and unregister_domain are public: they are called with
\* any domain, the name of the domain in the key field of the call.
RegisterDomain(s, domain) ==
    /\ keyring' = register_domain(keyring, s, domain)
    /\ last' = Call("register_domain", s, domain, "")
    /\ out' = <<"">>
    /\ UNCHANGED <<backend, stores, task, procs>>

UnregisterDomain(s, domain) ==
    /\ keyring' = unregister_domain(keyring, s, domain)
    /\ last' = Call("unregister_domain", s, domain, "")
    /\ out' = <<unregister_domain_error(keyring, s, domain)>>
    /\ UNCHANGED <<backend, stores, task, procs>>

NextRegistry ==
    \E s \in stores :
        \/ \E key \in Keys, value \in Values : Set(s, key, value)
        \/ \E key \in DeleteKeys : Delete(s, key)
        \/ Clear(s)
        \/ \E key \in Keys, value \in Values : SetWithDomainTracking(s, key, value)
        \/ \E domain \in Domains \ {""} : RegisterDomain(s, domain)
        \/ \E domain \in Domains \ {""} : UnregisterDomain(s, domain)

\* One KeychainStore, used through every public method that writes.
SpecRegistry == InitOneStore /\ [][NextRegistry]_vars

\* Two stores that differ in project or in domain: the domains and the names
\* are arbitrary strings, among them the name of the manifest and a domain
\* with the separator of the usernames in it.
IsolationProjects == {"proj_a", "proj_b"}

IsolationDomains == {"", "aws", "aws/1.0.0"}

IsolationKeys == {"A", "__keys__"}

IsolationStores ==
    [project : IsolationProjects, domain : IsolationDomains, version : {DEFAULT_VERSION}]

InitIsolation ==
    /\ backend = << >>
    /\ keyring = << >>
    /\ stores \in {S \in SUBSET IsolationStores : Cardinality(S) = 2}
    /\ last = NoCall
    /\ task = NoTask
    /\ out = << >>
    /\ procs = << >>

NextIsolation ==
    \E s \in stores :
        \/ \E key \in IsolationKeys : Set(s, key, "v")
        \/ \E key \in IsolationKeys : Delete(s, key)
        \/ Clear(s)

\* Two KeychainStores over one keyring, used with set, delete and clear.
SpecIsolation == InitIsolation /\ [][NextIsolation]_vars

(***************************************************************************)
(* Concurrent invocations: each is a process of its own with its own       *)
(* KeychainStore object; the keyring calls are the atomic steps.           *)
(***************************************************************************)

Procs == {"p1", "p2"}

Invocation(op, s, key, value) ==
    [op |-> op, store |-> s, key |-> key, value |-> value,
     pc |-> IF op = "delete" THEN "delete_secret" ELSE "set_secret",
     manifest |-> << >>, domains |-> << >>]

\* The invocations work on one project and domain; each sets a name.
InitConcurrent ==
    /\ backend = << >>
    /\ keyring = << >>
    /\ \E s \in AllStores :
        /\ stores = {s}
        /\ procs \in [Procs -> {Invocation("set", s, key, "1") : key \in Keys}]
    /\ last = NoCall
    /\ task = NoTask
    /\ out = << >>

\* keyring.set_password(self._service, self._username(key), value)
SetSecret(p) ==
    /\ procs[p].pc = "set_secret"
    /\ keyring' = set_secret(keyring, procs[p].store, procs[p].key, procs[p].value)
    /\ procs' = [procs EXCEPT ![p].pc = "read_manifest"]
    /\ UNCHANGED <<backend, stores, last, task, out>>

\* manifest = self._read_manifest()
ReadManifest(p) ==
    /\ procs[p].pc = "read_manifest"
    /\ procs' = [procs EXCEPT ![p].manifest = _read_manifest(keyring, procs[p].store, ""),
                              ![p].pc = "write_manifest"]
    /\ UNCHANGED <<backend, keyring, stores, last, task, out>>

\* if key not in manifest: manifest.append(key); self._write_manifest(manifest)
WriteManifest(p) ==
    /\ procs[p].pc = "write_manifest"
    /\ keyring' = set_write_manifest(keyring, procs[p].store, procs[p].key, procs[p].manifest)
    /\ procs' = [procs EXCEPT ![p].pc =
                     IF procs[p].op = "set_with_domain_tracking" /\ procs[p].store.domain # ""
                     THEN "register_read" ELSE "done"]
    /\ UNCHANGED <<backend, stores, last, task, out>>

NextConcurrent == \E p \in Procs : SetSecret(p) \/ ReadManifest(p) \/ WriteManifest(p)

\* Two invocations of set against one manifest, interleaved at the keyring calls.
SpecConcurrent == InitConcurrent /\ [][NextConcurrent]_vars

(***************************************************************************)
(* set_with_domain_tracking and delete, one keyring call at a time.        *)
(***************************************************************************)

\* register_domain after its read: domains.append(domain); set_password(...)
register_domain_write(kr, s, domain, domains) ==
    IF ~InSeq(domain, domains)
    THEN set_password(kr, _service(s), DOMAINS_KEY,
                      json_dumps(sorted_list(Append(domains, domain))))
    ELSE kr

\* unregister_domain after its read
unregister_domain_write(kr, s, domain, domains) ==
    LET rest == SelectSeq(domains, LAMBDA d : d # domain)
    IN  IF ~InSeq(domain, domains) THEN kr
        ELSE IF rest # <<>>
             THEN set_password(kr, _service(s), DOMAINS_KEY, json_dumps(sorted_list(rest)))
             ELSE delete_password(kr, _service(s), DOMAINS_KEY)

\* delete after its read: manifest.remove(key); self._write_manifest(manifest)
delete_write_manifest(kr, s, key, manifest) ==
    IF InSeq(key, manifest) THEN _write_manifest(kr, s, remove(manifest, key), "") ELSE kr

\* domains = self.list_domains(), in register_domain
RegisterRead(p) ==
    /\ procs[p].pc = "register_read"
    /\ procs' = [procs EXCEPT ![p].domains = list_domains(keyring, procs[p].store),
                              ![p].pc = "register_write"]
    /\ UNCHANGED <<backend, keyring, stores, last, task, out>>

\* if domain not in domains: ... keyring.set_password(self._service, "__domains__", ...)
RegisterWrite(p) ==
    /\ procs[p].pc = "register_write"
    /\ keyring' = register_domain_write(keyring, procs[p].store, procs[p].store.domain,
                                        procs[p].domains)
    /\ procs' = [procs EXCEPT ![p].pc = "done"]
    /\ UNCHANGED <<backend, stores, last, task, out>>

\* keyring.delete_password(self._service, self._username(key)), its error passed over
DeleteSecret(p) ==
    /\ procs[p].pc = "delete_secret"
    /\ keyring' = delete_password(keyring, _service(procs[p].store),
                                  _username(procs[p].store, procs[p].key))
    /\ procs' = [procs EXCEPT ![p].pc = "delete_read_manifest"]
    /\ UNCHANGED <<backend, stores, last, task, out>>

\* manifest = self._read_manifest(), in delete
DeleteReadManifest(p) ==
    /\ procs[p].pc = "delete_read_manifest"
    /\ LET manifest == _read_manifest(keyring, procs[p].store, "")
       IN  procs' = [procs EXCEPT ![p].manifest = manifest,
                                  ![p].pc = IF InSeq(procs[p].key, manifest)
                                            THEN "delete_write_manifest" ELSE "done"]
    /\ UNCHANGED <<backend, keyring, stores, last, task, out>>

\* manifest.remove(key); self._write_manifest(manifest)
DeleteWriteManifest(p) ==
    /\ procs[p].pc = "delete_write_manifest"
    /\ keyring' = delete_write_manifest(keyring, procs[p].store, procs[p].key,
                                        procs[p].manifest)
    /\ LET left == remove(procs[p].manifest, procs[p].key)
       IN  procs' = [procs EXCEPT ![p].manifest = left,
                                  ![p].pc = IF left = <<>> /\ procs[p].store.domain # ""
                                            THEN "unregister_read" ELSE "done"]
    /\ UNCHANGED <<backend, stores, last, task, out>>

\* domains = self.list_domains(); if domain not in domains: return
UnregisterRead(p) ==
    /\ procs[p].pc = "unregister_read"
    /\ LET domains == list_domains(keyring, procs[p].store)
       IN  procs' = [procs EXCEPT ![p].domains = domains,
                                  ![p].pc = IF InSeq(procs[p].store.domain, domains)
                                            THEN "unregister_write" ELSE "done"]
    /\ UNCHANGED <<backend, keyring, stores, last, task, out>>

\* the registry is written without the domain, or deleted when nothing is left
UnregisterWrite(p) ==
    /\ procs[p].pc = "unregister_write"
    /\ keyring' = unregister_domain_write(keyring, procs[p].store, procs[p].store.domain,
                                          procs[p].domains)
    /\ procs' = [procs EXCEPT ![p].pc = "done"]
    /\ UNCHANGED <<backend, stores, last, task, out>>

StepOps == {"set", "set_with_domain_tracking", "delete"}

\* The keyrings an invocation starts from: earlier invocations have completed.
StartKeyrings(s) ==
    LET one == set_with_domain_tracking(<< >>, s, "A", "1")
    IN  {<< >>, one, set_with_domain_tracking(one, s, "B", "1")}

\* One invocation; it may be terminated after any of its keyring calls.
InitSteps ==
    /\ backend = << >>
    /\ \E s \in AllStores :
        /\ stores = {s}
        /\ keyring \in StartKeyrings(s)
        /\ \E op \in StepOps, key \in Keys : procs = [p \in {"p1"} |-> Invocation(op, s, key, "2")]
    /\ last = NoCall
    /\ task = NoTask
    /\ out = << >>

NextSteps ==
    \E p \in DOMAIN procs :
        \/ SetSecret(p)
        \/ ReadManifest(p)
        \/ WriteManifest(p)
        \/ RegisterRead(p)
        \/ RegisterWrite(p)
        \/ DeleteSecret(p)
        \/ DeleteReadManifest(p)
        \/ DeleteWriteManifest(p)
        \/ UnregisterRead(p)
        \/ UnregisterWrite(p)

SpecSteps == InitSteps /\ [][NextSteps]_vars

\* What the commands set and delete call on a KeychainStore.
InterleavedOps == {"set_with_domain_tracking", "delete"}

InterleavedStores == {s \in AllStores : s.version = DEFAULT_VERSION /\ s.domain # ""}

\* Two invocations against one project, in one domain or in two.
InitInterleaved ==
    /\ backend = << >>
    /\ \E s1 \in InterleavedStores, s2 \in InterleavedStores :
        /\ stores = {s1, s2}
        /\ keyring \in {<< >>, set_with_domain_tracking(<< >>, s1, "A", "1")}
        /\ \E op1 \in InterleavedOps, op2 \in InterleavedOps, k1 \in Keys, k2 \in Keys :
            procs = [p \in Procs |-> IF p = "p1" THEN Invocation(op1, s1, k1, "2")
                                     ELSE Invocation(op2, s2, k2, "2")]
    /\ last = NoCall
    /\ task = NoTask
    /\ out = << >>

SpecInterleaved == InitInterleaved /\ [][NextSteps]_vars

\* Names that are looked up though never set: the manifest's and the registry's own.
ProbeNames == {MANIFEST_KEY, DOMAINS_KEY, "C"}

\* C1: after any sequence of set_with_domain_tracking and delete calls on
\* the stores of one project, a domain is in list_domains() of any store of
\* the project if and only if list_keys() of a store for that domain is not empty.
C1_RegistryIffManifest ==
    \A d \in Domains \ {""}, g \in AllStores, s \in AllStores :
        (s.domain = d /\ s.project = g.project) =>
            (InSeq(d, list_domains(keyring, g)) <=> list_keys(keyring, s) # <<>>)

\* C2: with one store, list_keys() holds exactly the names get() finds;
\* after delete(k), k is not listed and get(k) is None; after set(k, v), k is
\* listed and get(k) is v.
C2_ManifestConsistent ==
    \A s \in stores :
        LET listed == list_keys(keyring, s)
        IN  /\ \A k \in Keys \cup ProbeNames \cup SeqToSet(listed) :
                InSeq(k, listed) <=> get(keyring, s, k).found
            /\ last.op = "delete" =>
                ~InSeq(last.key, listed) /\ ~get(keyring, s, last.key).found
            /\ last.op = "set" =>
                InSeq(last.key, listed) /\ get(keyring, s, last.key) = Some(last.value)

\* C2: A and B were set and A deleted: list_keys() is ["B"].
C2_Witness ==
    \E s \in stores :
        /\ last = Call("delete", s, "A", "")
        /\ list_keys(keyring, s) = <<"B">>
        /\ get(keyring, s, "B").found
        /\ ~get(keyring, s, "A").found

(***************************************************************************)
(* The key grammar as a state machine: the initial state holds one call    *)
(* with its arguments, the actions evaluate it step by step into out.      *)
(***************************************************************************)

\* The characters the segments given to a class are made of: a letter, the
\* replacement character '_', the backslash, a blank and the character the
\* class's key separator is made of.
SegmentChars(cls) == {"a", "_", "\\", " ", Char(cls.key_separator, 1)}

\* The longest argument of a sanitize_key_segment call.
MaxSegLen == 3

\* The most characters name, project and domain of a build_key call hold together.
MaxBuildLen == 3

\* The most segments a key given to parse_key is joined from.
MaxParts == 6

RECURSIVE Strings(_, _)
\* The strings over SegmentChars(cls) of length n or less.
Strings(cls, n) ==
    IF n = 0 THEN {""}
    ELSE LET S == Strings(cls, n - 1) IN S \cup {s \o c : s \in S, c \in SegmentChars(cls)}

\* Versions: three that are valid semver (the pre-release of the third is
\* "-x") and one that is not.
TaskVersions == {"1.0.0", "2.10.3-rc.1+b5", "1.0.0--x", "1.0"}

\* The segments raw keys are joined from: empty, a name, a version written
\* with '_', and a name between two characters of the class's separator.
PartSet(cls) ==
    {"", "a", "1_0", Char(cls.key_separator, 1) \o "a" \o Char(cls.key_separator, 1)}

RECURSIVE join(_, _)
\* sep.join(parts)
join(parts, sep) ==
    IF Len(parts) = 0 THEN ""
    ELSE IF Len(parts) = 1 THEN parts[1]
    ELSE parts[1] \o sep \o join(Tail(parts), sep)

SanitizeTask(cls, x) == [op |-> "sanitize", cls |-> cls, value |-> x]

BuildTask(cls, n, p, d, v) ==
    [op |-> "build", cls |-> cls, name |-> n, project |-> p, domain |-> d, version |-> v]

ParseTask(cls, key) == [op |-> "parse", cls |-> cls, key |-> key]

ConstructTask(adapter, version) == [op |-> "construct", adapter |-> adapter, version |-> version]

\* Versions given to the constructors: valid semver, and strings that are not.
ConstructVersions ==
    {"1.0.0", "1.0.0-rc.1", "1.0", "", "v1.0.0", "01.0.0", "1.0.0.0", "latest", "1.0.0\n"}

\* The scenarios the documentation and the tests give.
ExampleTasks ==
    {BuildTask(AwsSsmStore, "API_KEY", "billing", "prod", "1.0.0"),
     BuildTask(AwsSsmStore, "K", "x/y", "dom", "1.0.0"),
     ParseTask(AwsSsmStore, "/envr/prod/billing/1.0.0/API_KEY")}

InitKey ==
    /\ backend = << >>
    /\ \/ \E a \in Adapters, v \in ConstructVersions : task = ConstructTask(a, v)
       \/ \E cls \in StoreClasses :
            \/ \E x \in Strings(cls, MaxSegLen) \cup {cls.default_namespace} :
                task = SanitizeTask(cls, x)
            \/ \E v \in TaskVersions, n \in Strings(cls, MaxBuildLen) :
                \E p \in Strings(cls, MaxBuildLen - Len(n)) :
                    \E d \in Strings(cls, MaxBuildLen - Len(n) - Len(p)) :
                        task = BuildTask(cls, n, p, d, v)
            \/ \E k \in 1..MaxParts : \E parts \in [1..k -> PartSet(cls)] :
                task = ParseTask(cls, join(parts, cls.key_separator))
            \/ task \in {e \in ExampleTasks : e.cls = cls}
    /\ out = << >>
    /\ procs = << >>
    /\ keyring = << >>
    /\ stores = {}
    /\ last = NoCall

Sanitize ==
    /\ task.op = "sanitize" /\ Len(out) = 0
    /\ out' = <<sanitize_key_segment(task.cls, task.value)>>
    /\ UNCHANGED <<backend, task, keyring, stores, last, procs>>

\* The result is sanitized once more.
SanitizeAgain ==
    /\ task.op = "sanitize" /\ Len(out) = 1
    /\ out' = Append(out, sanitize_key_segment(task.cls, out[1]))
    /\ UNCHANGED <<backend, task, keyring, stores, last, procs>>

BuildKey ==
    /\ task.op = "build" /\ Len(out) = 0
    /\ out' = <<build_key(task.cls, task.name, task.project, task.domain, task.version)>>
    /\ UNCHANGED <<backend, task, keyring, stores, last, procs>>

\* The key build_key returned is parsed.
ParseBuilt ==
    /\ task.op = "build" /\ Len(out) = 1
    /\ out' = Append(out, parse_key(task.cls, out[1]))
    /\ UNCHANGED <<backend, task, keyring, stores, last, procs>>

ParseKey ==
    /\ task.op = "parse" /\ Len(out) = 0
    /\ out' = <<parse_key(task.cls, task.key)>>
    /\ UNCHANGED <<backend, task, keyring, stores, last, procs>>

\* The export name of the key that was parsed.
ExportName ==
    /\ task.op = "parse" /\ Len(out) = 1
    /\ out' = Append(out, key_to_export_name(task.cls, task.key))
    /\ UNCHANGED <<backend, task, keyring, stores, last, procs>>

\* An adapter is constructed with the version of the task.
Construct ==
    /\ task.op = "construct" /\ Len(out) = 0
    /\ \E gh \in BOOLEAN : out' = <<construct(task.adapter, task.version, gh)>>
    /\ UNCHANGED <<backend, task, keyring, stores, last, procs>>

NextKey ==
    Sanitize \/ SanitizeAgain \/ BuildKey \/ ParseBuilt \/ ParseKey \/ ExportName \/ Construct

SpecKey == InitKey /\ [][NextKey]_vars

\* What the call under evaluation was given.
Sep == task.cls.key_separator

Built == task.op = "build" /\ Len(out) >= 1

BuiltAndParsed == task.op = "build" /\ Len(out) = 2

ParsedRaw == task.op = "parse" /\ Len(out) = 1

\* The segments parse_key splits the key of a parse call into.
RawParts == split(strip_chars(task.key, Sep), Sep)

\* A segment that sanitising leaves as it is.
Clean(x) == sanitize_key_segment(task.cls, x) = x

\* C3: for every store class, when name, project and domain do not contain
\* the key separator and the version is valid semver, parsing the built key
\* succeeds and returns the same name, project, domain and version.  Stated
\* for the segments among these that sanitising leaves as they are (not
\* blank, no backslash, no blank at an end).
C3_RoundTrip ==
    (/\ BuiltAndParsed
     /\ \A x \in {task.name, task.project, task.domain} : ~contains(x, Sep) /\ Clean(x)
     /\ is_valid_semver(task.version))
    => /\ out[2].found
       /\ out[2].value.name = task.name
       /\ out[2].value.project = task.project
       /\ out[2].value.domain = task.domain
       /\ out[2].value.version = task.version

\* C4: for every store class and every x, sanitize_key_segment(x) does not
\* contain the class's key separator.
C4_SeparatorSafe ==
    (task.op = "sanitize" /\ Len(out) >= 1) => ~contains(out[1], Sep)

\* C5: sanitising a sanitised segment changes nothing; an empty or blank x
\* gives default_namespace, which sanitising leaves as it is.
C5_Idempotent ==
    /\ (task.op = "sanitize" /\ Len(out) >= 1 /\ strip(task.value) = "")
        => out[1] = task.cls.default_namespace
    /\ (task.op = "sanitize" /\ Len(out) = 2) => out[2] = out[1]

\* C6: for AwsSsmStore, any name, project and domain and a valid semver
\* version, parsing the built key succeeds and returns the sanitised name,
\* project and domain and the version as given.
C6_AwsBuildParse ==
    (BuiltAndParsed /\ task.cls = AwsSsmStore /\ is_valid_semver(task.version))
    => /\ out[2].found
       /\ out[2].value.name = sanitize_key_segment(AwsSsmStore, task.name)
       /\ out[2].value.project = sanitize_key_segment(AwsSsmStore, task.project)
       /\ out[2].value.domain = sanitize_key_segment(AwsSsmStore, task.domain)
       /\ out[2].value.version = task.version

\* C6: a domain with a '/' in it came back sanitised, beside a blank project.
C6_Witness ==
    /\ BuiltAndParsed /\ task.cls = AwsSsmStore /\ is_valid_semver(task.version)
    /\ contains(task.domain, "/") /\ strip(task.project) = ""
    /\ out[2].found
    /\ out[2].value.domain # task.domain
    /\ ~contains(out[2].value.domain, "/")
    /\ out[2].value.project = "_default_"

\* C7: build_key returns prefix, domain, project, version and name, in this
\* order, joined by the key separator, with no leading separator; the
\* segments are sanitised and the version has its dots replaced by the
\* version separator.  AwsSsmStore maps (API_KEY, billing, prod, 1.0.0) to
\* envr/prod/billing/1.0.0/API_KEY.
C7_BuildKeyFormat ==
    /\ Built =>
        out[1] = task.cls.prefix \o Sep \o sanitize_key_segment(task.cls, task.domain)
                 \o Sep \o sanitize_key_segment(task.cls, task.project)
                 \o Sep \o replace(task.version, ".", task.cls.version_separator)
                 \o Sep \o sanitize_key_segment(task.cls, task.name)
    /\ (Built /\ task = BuildTask(AwsSsmStore, "API_KEY", "billing", "prod", "1.0.0"))
        => out[1] = "envr/prod/billing/1.0.0/API_KEY"

\* C7: a key of GitHubStore with the dots of its version replaced, and the
\* documented key of AwsSsmStore.
C7_Witness ==
    \/ /\ Built /\ task.cls = GitHubStore /\ task.version = "2.10.3-rc.1+b5"
       /\ task.domain = "a" /\ task.project = "" /\ task.name = "a a"
       /\ out[1] = "ENVR__a___default___2_10_3-rc_1+b5__a a"
    \/ /\ Built /\ out[1] = "envr/prod/billing/1.0.0/API_KEY"
       /\ task.project = "billing" /\ task.domain = "prod"

\* C8: parse_key returns None exactly when the key, its end separators
\* stripped, splits into fewer than five segments; otherwise the last five
\* segments are prefix, domain, project, version and name, in this order.
C8_ParseLastFive ==
    ParsedRaw =>
        LET n == Len(RawParts)
        IN  /\ out[1].found <=> n >= 5
            /\ out[1].found =>
                /\ out[1].value.prefix = RawParts[n - 4]
                /\ out[1].value.domain = RawParts[n - 3]
                /\ out[1].value.project = RawParts[n - 2]
                /\ replace(RawParts[n - 1], "_", ".") = out[1].value.version
                /\ out[1].value.name = RawParts[n]

\* C8: a key of six segments was parsed, its first segment ignored.
C8_Witness ==
    /\ ParsedRaw /\ task.cls = GcpSmStore
    /\ task.key = "a--1_0--a--a--a--1_0"
    /\ out[1].found
    /\ out[1].value.prefix = "1_0" /\ out[1].value.name = "1_0"

\* key without one leading and one trailing occurrence of the whole separator
strip_one(key, sep) ==
    LET n == Len(sep)
        a == IF Len(key) >= n /\ SubSeq(key, 1, n) = sep
             THEN SubSeq(key, n + 1, Len(key)) ELSE key
    IN  IF Len(a) >= n /\ SubSeq(a, Len(a) - n + 1, Len(a)) = sep
        THEN SubSeq(a, 1, Len(a) - n) ELSE a

\* C9: before splitting, parse_key removes at most one leading and one
\* trailing occurrence of the key separator, taken as a whole string; every
\* other character of the key is kept in the result.  Stated for the keys
\* that neither begin nor end with two characters of the separator, of
\* which at most one whole separator is to go at either end.
C9_StripsOneSeparator ==
    (/\ ParsedRaw
     /\ LET c == Char(Sep, 1)
            k == task.key
        IN  Len(k) >= 2 => /\ SubSeq(k, 1, 2) # c \o c
                           /\ SubSeq(k, Len(k) - 1, Len(k)) # c \o c) =>
        LET parts == split(strip_one(task.key, Sep), Sep)
            n == Len(parts)
        IN  /\ out[1].found <=> n >= 5
            /\ out[1].found =>
                /\ out[1].value.prefix = parts[n - 4]
                /\ out[1].value.domain = parts[n - 3]
                /\ out[1].value.project = parts[n - 2]
                /\ out[1].value.name = parts[n]

\* C10: the version parse_key returns is the version segment with the
\* class's version separator replaced by '.', which for a class whose
\* version separator is '.' is the segment unchanged.
C10_VersionSeparator ==
    (ParsedRaw /\ out[1].found) =>
        out[1].value.version
            = replace(RawParts[Len(RawParts) - 1], task.cls.version_separator, ".")

\* A parse call whose key was also given to key_to_export_name.
Exported == task.op = "parse" /\ Len(out) = 2

\* C11: key_to_export_name returns the name parse_key finds when parsing
\* succeeds; otherwise what follows the last occurrence of the key separator
\* when the key holds one, and the whole key when it holds none.
C11_ExportName ==
    Exported =>
        LET k == task.key
            n == Len(Sep)
            at == {i \in 1..Len(k) : i + n - 1 <= Len(k) /\ SubSeq(k, i, i + n - 1) = Sep}
        IN  IF out[1].found THEN out[2] = out[1].value.name
            ELSE IF at = {} THEN out[2] = k
            ELSE \E i \in at :
                    /\ \A j \in at : j <= i
                    /\ out[2] = SubSeq(k, i + n, Len(k))

\* C11: a key of two segments does not parse and its last segment is returned.
C11_Witness ==
    /\ Exported /\ task.cls = GcpSmStore
    /\ task.key = "a--1_0"
    /\ ~out[1].found
    /\ out[2] = "1_0"

\* Strict semver: what _SEMVER_PATTERN describes, with nothing after it.
strict_semver(version) == is_valid_semver(version) /\ ~contains(version, "\n")

\* C12: constructing any of the adapters with a version that is not strict
\* semver ends with the invalid-version error, before any call to a backend
\* or an external tool.
C12_InvalidVersionFails ==
    (task.op = "construct" /\ Len(out) = 1 /\ ~strict_semver(task.version))
        => out[1] = Constructed("ValueError", << >>)

\* C13: delete of a name the store holds no secret for raises no error and
\* leaves list_keys() as it was, whatever was called before.
C13_DeleteAbsent ==
    [][\A s \in stores :
        (last'.op = "delete" /\ last'.store = s /\ ~get(keyring, s, last'.key).found)
            => (out' = <<"">> /\ list_keys(keyring', s) = list_keys(keyring, s))]_vars

\* C13: a name that was never set was deleted, without error, beside a listed name.
C13_Witness ==
    \E s \in stores :
        /\ last = Call("delete", s, "NOPE", "")
        /\ out = <<"">>
        /\ list_keys(keyring, s) = <<"A">>

\* C14: when delete has removed the last listed name of a domain, the
\* backend holds no manifest entry for the domain, not a stored empty list.
C14_EmptyManifestDeleted ==
    \A s \in stores :
        (last.op = "delete" /\ last.store = s /\ list_keys(keyring, s) = <<>>)
            => ~get_password(keyring, _service(s), _manifest_username(s, "")).found

\* The keyring without the entry of the domain registry.
WithoutRegistry(kr, s) == [e \in DOMAIN kr \ {<<_service(s), DOMAINS_KEY>>} |-> kr[e]]

\* How many times x occurs in seq.
Count(x, seq) == Cardinality({i \in 1..Len(seq) : seq[i] = x})

\* C15: after clear(), get() returns None for every name that was in the
\* manifest, the manifest entry is gone from the backend, list_keys() is
\* empty and the domain of the store is not in list_domains(); clear() raises
\* no error, with or without a manifest.
C15_Clear ==
    [][\A s \in stores :
        (last'.op = "clear" /\ last'.store = s) =>
            /\ \A k \in SeqToSet(list_keys(keyring, s)) : ~get(keyring', s, k).found
            /\ ~get_password(keyring', _service(s), _manifest_username(s, "")).found
            /\ list_keys(keyring', s) = <<>>
            /\ ~InSeq(s.domain, list_domains(keyring', s))
            /\ out' = <<"">>]_vars

\* C15: clear() has left nothing of a store with a domain but the registry,
\* which holds another domain.
C15_Witness ==
    \E s \in stores :
        /\ last = Call("clear", s, "", "")
        /\ s.domain = "aws"
        /\ out = <<"">>
        /\ list_domains(keyring, s) = <<"_global">>
        /\ DOMAIN keyring = {<<_service(s), DOMAINS_KEY>>}

\* C16: after set_with_domain_tracking(k, v) on a store with domain d,
\* get(k) is v, k is in list_keys() and d is in list_domains() of every store
\* of the project, once.
C16_SetWithDomainTracking ==
    \A s \in stores :
        (last.op = "set_with_domain_tracking" /\ last.store = s /\ s.domain # "") =>
            /\ get(keyring, s, last.key) = Some(last.value)
            /\ InSeq(last.key, list_keys(keyring, s))
            /\ \A g \in AllStores :
                g.project = s.project => Count(s.domain, list_domains(keyring, g)) = 1

\* C16: a second name was set with tracking in a domain registered beside another.
C16_Witness ==
    \E s \in stores :
        /\ last = Call("set_with_domain_tracking", s, "B", "2")
        /\ s.domain = "aws"
        /\ list_keys(keyring, s) = <<"A", "B">>
        /\ list_domains(keyring, [s EXCEPT !.domain = ""]) = <<"_global", "aws">>

\* C17: unregister_domain(d) takes d out of the registry and leaves the other
\* registered domains, and every other entry of the backend, as they were;
\* when d was the only registered domain the registry entry is deleted; when
\* d was not registered nothing is written.
C17_UnregisterDomain ==
    [][\A s \in stores :
        (last'.op = "unregister_domain" /\ last'.store = s) =>
            LET d == last'.key
                before == list_domains(keyring, s)
                after == list_domains(keyring', s)
            IN  /\ SeqToSet(after) = SeqToSet(before) \ {d}
                /\ WithoutRegistry(keyring', s) = WithoutRegistry(keyring, s)
                /\ SeqToSet(before) = {d}
                    => ~get_password(keyring', _service(s), DOMAINS_KEY).found
                /\ ~InSeq(d, before) => keyring' = keyring]_vars

\* C17: a domain was unregistered and the other registered domain is left.
C17_Witness ==
    \E s \in stores :
        /\ last = Call("unregister_domain", s, "aws", "")
        /\ list_domains(keyring, s) = <<"_global">>
        /\ list_keys(keyring, s) # <<>>

\* C18: set, delete and clear on a store change neither get() nor
\* list_keys() of a store of another project or of another domain.
C18_Isolation ==
    [][\A s \in stores, o \in stores :
        (/\ last'.store = s
         /\ last'.op \in {"set", "delete", "clear"}
         /\ (s.project # o.project \/ s.domain # o.domain)) =>
            /\ list_keys(keyring', o) = list_keys(keyring, o)
            /\ \A k \in IsolationKeys : get(keyring', o, k) = get(keyring, o, k)]_vars

\* C19: build_key returns a key only for a version that is valid semver;
\* with any other version it ends with an error and returns nothing.
C19_InvalidVersionNoKey ==
    Built => is_valid_semver(task.version)

\* Both invocations have returned.
AllDone == procs # << >> /\ \A p \in Procs : procs[p].pc = "done"

\* C20: the read-modify-write of the manifest is not atomic: when two
\* invocations of set with different names have both returned, both secrets
\* are written, and the manifest lists both names unless each invocation
\* read the manifest before the other wrote it; then it lists one of them.
C20_LostUpdate ==
    (AllDone /\ procs["p1"].key # procs["p2"].key) =>
        LET s == procs["p1"].store
            names == {procs[p].key : p \in Procs}
            listed == SeqToSet(list_keys(keyring, s))
            blind == \A p \in Procs : procs[p].manifest = << >>
        IN  /\ \A p \in Procs : get(keyring, s, procs[p].key) = Some(procs[p].value)
            /\ ~blind => listed = names
            /\ blind => listed \subseteq names /\ Cardinality(listed) = 1

\* C20: both invocations have returned, both secrets are stored and the
\* manifest lists only one of the two names.
C20_Witness ==
    /\ AllDone
    /\ procs["p1"].key = "A" /\ procs["p2"].key = "B"
    /\ \E s \in stores :
        /\ get(keyring, s, "A").found /\ get(keyring, s, "B").found
        /\ list_keys(keyring, s) = <<"A">>

ManifestEntry(kr, s) == get_password(kr, _service(s), _manifest_username(s, ""))

RegistryEntry(kr, s) == get_password(kr, _service(s), DOMAINS_KEY)

Stored(kr, s, key) == get(kr, s, key).found

Listed(kr, s, key) == InSeq(key, list_keys(kr, s))

\* C21: the keyring calls of one operation come in a fixed order. A set or
\* set_with_domain_tracking rewrites the manifest only when its secret is
\* stored already, and the registry only when set has finished (secret stored
\* and name listed); a delete rewrites the manifest only when its secret is
\* gone and the registry only when the name is no longer listed. So an
\* invocation of set terminated after any of its calls leaves no listed name
\* without a stored secret.
C21_WriteOrder ==
    [][\A p \in DOMAIN procs :
        LET i == procs[p]
            s == i.store
        IN  /\ i.op \in {"set", "set_with_domain_tracking"} =>
                /\ ManifestEntry(keyring', s) # ManifestEntry(keyring, s)
                       => get(keyring, s, i.key) = Some(i.value)
                /\ RegistryEntry(keyring', s) # RegistryEntry(keyring, s)
                       => /\ i.op = "set_with_domain_tracking"
                          /\ get(keyring, s, i.key) = Some(i.value)
                          /\ Listed(keyring, s, i.key)
                /\ \A k \in Keys : Listed(keyring', s, k) => Stored(keyring', s, k)
            /\ i.op = "delete" =>
                /\ ManifestEntry(keyring', s) # ManifestEntry(keyring, s)
                       => ~Stored(keyring, s, i.key)
                /\ RegistryEntry(keyring', s) # RegistryEntry(keyring, s)
                       => /\ ~Stored(keyring, s, i.key)
                          /\ list_keys(keyring, s) = << >>]_vars

\* A set terminated before its manifest write: the secret is stored, unlisted.
C21_Witness ==
    /\ DOMAIN procs = {"p1"}
    /\ procs["p1"].op = "set"
    /\ procs["p1"].pc = "write_manifest"
    /\ Stored(keyring, procs["p1"].store, procs["p1"].key)
    /\ ~Listed(keyring, procs["p1"].store, procs["p1"].key)

\* C22: after any sequence of set, set_with_domain_tracking, delete and clear
\* on the stores of one project, the domain of a store is in the domain
\* registry if and only if the manifest of that domain lists a name.
C22_RegistryIffManifest ==
    \A s \in stores :
        s.domain # "" =>
            (InSeq(s.domain, list_domains(keyring, s)) <=> list_keys(keyring, s) # << >>)

(***************************************************************************)
(* The cloud adapters AwsSsmStore, GcpSmStore, AzureKvStore and            *)
(* AliyunSmStore. backend maps the name of a parameter or secret to its    *)
(* value; a store object is a record of its class and constructor          *)
(* arguments.                                                              *)
(***************************************************************************)

startswith(s, p) == Len(s) >= Len(p) /\ SubSeq(s, 1, Len(p)) = p

endswith(s, p) == Len(s) >= Len(p) /\ SubSeq(s, Len(s) - Len(p) + 1, Len(s)) = p

Upper == "ABCDEFGHIJKLMNOPQRSTUVWXYZ"

Lower == "abcdefghijklmnopqrstuvwxyz"

RECURSIVE lower(_)
\* s.lower()
lower(s) ==
    IF s = "" THEN ""
    ELSE LET c == Char(s, 1)
         IN  (IF \E i \in 1..Len(Upper) : Char(Upper, i) = c
              THEN Char(Lower, CHOOSE i \in 1..Len(Upper) : Char(Upper, i) = c)
              ELSE c) \o lower(Tail(s))

RECURSIVE re_sub(_, _, _, _)
\* re.compile("[^...]+").sub(repl, s): each run of characters outside Allowed
\* becomes one repl; inrun tells that the preceding character was replaced
re_sub(s, Allowed, repl, inrun) ==
    IF s = "" THEN ""
    ELSE IF Char(s, 1) \in Allowed THEN Char(s, 1) \o re_sub(Tail(s), Allowed, repl, FALSE)
    ELSE (IF inrun THEN "" ELSE repl) \o re_sub(Tail(s), Allowed, repl, TRUE)

AliyunSmStore == [GcpSmStore EXCEPT !.service_name = "aliyun"]

CloudClasses == {AwsSsmStore, GcpSmStore, AzureKvStore, AliyunSmStore}

\* The class of a store object.
class_of(s) == CHOOSE cls \in CloudClasses : cls.service_name = s.cls

\* gcp_sm.py: _SECRET_ID_RE.sub("_", key).strip("_") or "key"
_sanitize_secret_id(key) ==
    LET id == strip_chars(re_sub(key, Letters \cup Digits \cup {"_", "-"}, "_", FALSE), "_")
    IN  IF id # "" THEN id ELSE "key"

\* azure_kv.py: _SECRET_NAME_RE.sub("-", key).strip("-").lower() or "key"
AzureKvStore_sanitize_secret_name(key) ==
    LET name == lower(strip_chars(re_sub(key, Letters \cup Digits \cup {"-"}, "-", FALSE), "-"))
    IN  IF name # "" THEN name ELSE "key"

\* aliyun_sm.py: _SECRET_NAME_RE.sub("_", key).strip("_") or "key"
AliyunSmStore_sanitize_secret_name(key) ==
    LET name == strip_chars(re_sub(key, Letters \cup Digits \cup {"_", "-"}, "_", FALSE), "_")
    IN  IF name # "" THEN name ELSE "key"

build_default_prefix(cls, domain, project) ==
    LET d == sanitize_key_segment(cls, domain)
        p == sanitize_key_segment(cls, project)
    IN  IF cls.service_name = "aws"
        THEN "/" \o cls.prefix \o "/" \o d \o "/" \o p \o "/"
        ELSE cls.prefix \o "--" \o d \o "--" \o p \o "--"

\* __init__ of a cloud adapter: AwsSsmStore ends its prefix with "/"
CloudStore(cls, prefix, domain, project, version) ==
    [cls |-> cls.service_name,
     prefix |-> IF cls.service_name = "aws" /\ ~endswith(prefix, "/")
                THEN prefix \o "/" ELSE prefix,
     domain |-> domain, project |-> project, version |-> version]

\* make_cloud_store: domain and project reach the prefix only; configured
\* is what cfg.resolve_ssm_prefix returned
make_cloud_store(cls, configured, domain, project) ==
    LET default_ns == cls.default_namespace
        domain_str == IF domain # "" THEN domain ELSE default_ns
        project_str == IF project # "" THEN project ELSE default_ns
        default_prefix == build_default_prefix(cls, domain_str, project_str)
        dashed == replace(strip_chars(configured.value, "/"), "/", "-")
        resolved_prefix ==
            IF ~configured.found THEN default_prefix
            ELSE IF cls.service_name = "aws" THEN configured.value
            ELSE IF dashed # "" THEN dashed \o "-" ELSE dashed
    IN  CloudStore(cls, resolved_prefix, DEFAULT_NAMESPACE, DEFAULT_NAMESPACE,
                   DEFAULT_VERSION)

_resolve_key(s, key) ==
    IF parse_key(class_of(s), key).found THEN key
    ELSE build_key(class_of(s), key, s.project, s.domain, s.version)

_param_name(s, key) ==
    LET full_key == _resolve_key(s, key)
    IN  IF startswith(full_key, class_of(s).key_separator) THEN full_key
        ELSE class_of(s).key_separator \o full_key

_secret_id(s, key) ==
    LET full == _resolve_key(s, key)
    IN  IF full = key /\ ~contains(key, "--") /\ startswith(key, "envr") THEN key
        ELSE _sanitize_secret_id(full)

\* The name an adapter gives the backend for a key.
backend_name(s, key) ==
    CASE s.cls = "aws" -> _param_name(s, key)
      [] s.cls = "gcp" -> _secret_id(s, key)
      [] s.cls = "azure" -> AzureKvStore_sanitize_secret_name(_resolve_key(s, key))
      [] s.cls = "aliyun" -> AliyunSmStore_sanitize_secret_name(_resolve_key(s, key))

cloud_get(b, s, key) ==
    IF backend_name(s, key) \in DOMAIN b THEN Some(b[backend_name(s, key)]) ELSE None

cloud_set(b, s, key, value) ==
    [n \in DOMAIN b \cup {backend_name(s, key)} |->
        IF n = backend_name(s, key) THEN value ELSE b[n]]

\* a missing parameter or secret is passed over
cloud_delete(b, s, key) == [n \in DOMAIN b \ {backend_name(s, key)} |-> b[n]]

\* describe_parameters with the filter Path, Recursive: the parameters below path
describe_parameters(b, path) == {n \in DOMAIN b : startswith(n, path \o "/")}

AwsSsmStore_list_keys(b, s) ==
    sorted({n \in describe_parameters(b, rstrip_set(s.prefix, {"/"})) :
                startswith(n, s.prefix)})

GcpSmStore_list_keys(b, s) ==
    LET filter_prefix == _sanitize_secret_id(rstrip_set(s.prefix, {"-"}))
    IN  sorted({n \in DOMAIN b :
                   IF filter_prefix # "" THEN startswith(n, filter_prefix)
                   ELSE startswith(n, "envr")})

AzureKvStore_list_keys(b, s) ==
    LET filter_prefix == lower(AzureKvStore_sanitize_secret_name(rstrip_set(s.prefix, {"-"})))
    IN  sorted({n \in DOMAIN b :
                   IF filter_prefix # "" THEN startswith(lower(n), filter_prefix)
                   ELSE startswith(lower(n), "envr")})

AliyunSmStore_list_keys(b, s) ==
    LET filter_prefix == AliyunSmStore_sanitize_secret_name(rstrip_set(s.prefix, {"-"}))
    IN  sorted({n \in DOMAIN b :
                   IF filter_prefix # "" THEN startswith(n, filter_prefix)
                   ELSE startswith(n, "envr")})

cloud_list_keys(b, s) ==
    CASE s.cls = "aws" -> AwsSsmStore_list_keys(b, s)
      [] s.cls = "gcp" -> GcpSmStore_list_keys(b, s)
      [] s.cls = "azure" -> AzureKvStore_list_keys(b, s)
      [] s.cls = "aliyun" -> AliyunSmStore_list_keys(b, s)

RECURSIVE delete_each(_, _, _)
delete_each(b, s, keys) ==
    IF keys = << >> THEN b ELSE delete_each(cloud_delete(b, s, keys[1]), s, Tail(keys))

\* SecretStore.clear: for key in self.list_keys(): self.delete(key)
cloud_clear(b, s) == delete_each(b, s, cloud_list_keys(b, s))

CloudValues == {"1", "2"}

CloudSet(s, key, value) ==
    /\ backend' = cloud_set(backend, s, key, value)
    /\ last' = Call("set", s, key, value)
    /\ UNCHANGED <<keyring, stores, task, out, procs>>

CloudDelete(s, key) ==
    /\ backend' = cloud_delete(backend, s, key)
    /\ last' = Call("delete", s, key, "")
    /\ UNCHANGED <<keyring, stores, task, out, procs>>

CloudClear(s) ==
    /\ backend' = cloud_clear(backend, s)
    /\ last' = Call("clear", s, "", "")
    /\ UNCHANGED <<keyring, stores, task, out, procs>>

\* Short names, and keys list_keys() returned.
NextCloud ==
    \E s \in stores :
        \/ \E key \in Keys, value \in CloudValues : CloudSet(s, key, value)
        \/ \E key \in Keys \cup SeqToSet(cloud_list_keys(backend, s)) : CloudDelete(s, key)
        \/ CloudClear(s)

\* Parameters other writers of the parameter store keep below "/envr/".
OtherParameters == {"/envr/KEY", "/envr/aws/KEY", "/envr/aws/test/1_0_0/KEY"}

\* One AwsSsmStore with the prefix it has by default.
InitSsm ==
    /\ backend \in UNION {[P -> {"x"}] : P \in SUBSET OtherParameters}
    /\ stores = {CloudStore(AwsSsmStore, "/envr/", DEFAULT_NAMESPACE, DEFAULT_NAMESPACE,
                            DEFAULT_VERSION)}
    /\ keyring = << >>
    /\ last = NoCall
    /\ task = NoTask
    /\ out = << >>
    /\ procs = << >>

SpecSsm == InitSsm /\ [][NextCloud]_vars
\* C23: every key list_keys() of an AwsSsmStore returns names, passed back,
\* the parameter that was listed: get reads that parameter, delete removes
\* that parameter and no other, and after clear() list_keys() is empty,
\* whatever parameters exist below the prefix.
C23_ListedKeysPassBack ==
    \A s \in stores :
        /\ \A k \in SeqToSet(cloud_list_keys(backend, s)) :
            /\ backend_name(s, k) = k
            /\ cloud_get(backend, s, k) = Some(backend[k])
            /\ DOMAIN cloud_delete(backend, s, k) = DOMAIN backend \ {k}
        /\ last.op = "clear" => cloud_list_keys(backend, s) = << >>

ResolveDomains == {"", "aws"}

ResolveProjects == {"", "app"}

\* A store from get_store / make_cloud_store(store_name, cfg, domain, env_name,
\* project=project); cfg names no ssm_prefix for the domain.
InitResolved ==
    /\ \E cls \in CloudClasses, domain \in ResolveDomains, project \in ResolveProjects :
        /\ task = [op |-> "make_cloud_store", cls |-> cls, domain |-> domain,
                   project |-> project]
        /\ stores = {make_cloud_store(cls, None, domain, project)}
    /\ backend = << >>
    /\ keyring = << >>
    /\ last = NoCall
    /\ out = << >>
    /\ procs = << >>

SpecResolved == InitResolved /\ [][NextCloud]_vars

PrefixPairs == {<<"aws", "app">>, <<"aws", "app2">>, <<"web", "app">>}

\* Two stores of one class on one backend, each constructed with its
\* default prefix build_default_prefix(domain, project).
InitPrefix ==
    /\ \E cls \in CloudClasses \ {AwsSsmStore}, a \in PrefixPairs, b \in PrefixPairs :
        /\ a # b
        /\ stores = {CloudStore(cls, build_default_prefix(cls, a[1], a[2]), a[1], a[2],
                                DEFAULT_VERSION),
                     CloudStore(cls, build_default_prefix(cls, b[1], b[2]), b[1], b[2],
                                DEFAULT_VERSION)}
    /\ backend = << >>
    /\ keyring = << >>
    /\ last = NoCall
    /\ task = NoTask
    /\ out = << >>
    /\ procs = << >>

SpecPrefix == InitPrefix /\ [][NextCloud]_vars

\* C28: after set(name, v) on a store that make_cloud_store returned for
\* project p and domain d, the value is stored under the backend name of
\* build_key(name, p, d, version), and list_keys() of the store holds a key
\* that parses to the name, the domain d and the project p.
C28_SetUnderBuiltKey ==
    \A s \in stores :
        (last.op = "set" /\ last.store = s) =>
            LET cls == class_of(s)
                d == IF task.domain # "" THEN task.domain ELSE cls.default_namespace
                p == IF task.project # "" THEN task.project ELSE cls.default_namespace
                physical == backend_name(CloudStore(cls, s.prefix, d, p, s.version), last.key)
            IN  /\ physical \in DOMAIN backend
                /\ backend[physical] = last.value
                /\ \E k \in SeqToSet(cloud_list_keys(backend, s)) :
                    /\ parse_key(cls, k).found
                    /\ parse_key(cls, k).value.name = last.key
                    /\ parse_key(cls, k).value.domain = sanitize_key_segment(cls, d)
                    /\ parse_key(cls, k).value.project = sanitize_key_segment(cls, p)

\* C29: list_keys() of a GcpSmStore, AzureKvStore or AliyunSmStore with the
\* prefix build_default_prefix(d, p) returns only keys that parse to the
\* domain d and the project p: no secret of another (domain, project) pair.
C29_ListOnlyOwnPair ==
    \A s \in stores :
        \A k \in SeqToSet(cloud_list_keys(backend, s)) :
            LET cls == class_of(s)
            IN  /\ parse_key(cls, k).found
                /\ parse_key(cls, k).value.domain = sanitize_key_segment(cls, s.domain)
                /\ parse_key(cls, k).value.project = sanitize_key_segment(cls, s.project)

(***************************************************************************)
(* FileStore: the secrets are the lines of one .env file. backend maps the *)
(* path of the file to its text.                                           *)
(***************************************************************************)

_format_env_value(value) ==
    IF value = "" THEN "\"\""
    ELSE IF \/ contains(value, "\n") \/ contains(value, "\r") \/ contains(value, "\"")
            \/ contains(value, " ") \/ contains(value, "=")
         THEN "\"" \o replace(replace(replace(value, "\\", "\\\\"), "\"", "\\\""),
                              "\n", "\\n") \o "\""
         ELSE value

RECURSIVE splitlines_from(_, _, _)
\* started tells that the current line has begun (an empty last line is no line)
splitlines_from(s, cur, started) ==
    IF s = "" THEN (IF started THEN <<cur>> ELSE << >>)
    ELSE IF startswith(s, "\r\n") THEN <<cur>> \o splitlines_from(SubSeq(s, 3, Len(s)), "", FALSE)
    ELSE IF Char(s, 1) \in {"\n", "\r"} THEN <<cur>> \o splitlines_from(Tail(s), "", FALSE)
    ELSE splitlines_from(Tail(s), cur \o Char(s, 1), TRUE)

\* text.splitlines()
splitlines(text) == splitlines_from(text, "", FALSE)

RECURSIVE word_len(_)
\* the length of the longest run of \w at the start of s
word_len(s) ==
    IF s # "" /\ Char(s, 1) \in Letters \cup Digits \cup {"_"} THEN 1 + word_len(Tail(s)) ELSE 0

\* ([A-Za-z_]\w*)\s*=\s*(.*)$ matched at the start of s: the groups key and raw
key_value(s) ==
    LET n == word_len(s)
        rest == lstrip_set(SubSeq(s, n + 1, Len(s)), Whitespace)
    IN  IF s = "" \/ Char(s, 1) \notin Letters \cup {"_"} THEN None
        ELSE IF rest = "" \/ Char(rest, 1) # "=" THEN None
        ELSE Some([key |-> SubSeq(s, 1, n), raw |-> lstrip_set(Tail(rest), Whitespace)])

\* _LINE_RE.match(stripped): with the prefix "export" when that matches, else without
_LINE_RE(s) ==
    LET after == SubSeq(s, 7, Len(s))
        exported == IF startswith(s, "export") /\ after # "" /\ Char(after, 1) \in Whitespace
                    THEN key_value(lstrip_set(after, Whitespace)) ELSE None
    IN  IF exported.found THEN exported ELSE key_value(s)

\* raw.index(" #")
index(s, sub) == CHOOSE i \in 1..Len(s) : SubSeq(s, i, i + Len(sub) - 1) = sub
                     /\ \A j \in 1..(i - 1) : SubSeq(s, j, j + Len(sub) - 1) # sub

_unquote(raw) ==
    IF /\ Len(raw) >= 2
       /\ \/ Char(raw, 1) = "\"" /\ Char(raw, Len(raw)) = "\""
          \/ Char(raw, 1) = "'" /\ Char(raw, Len(raw)) = "'"
    THEN SubSeq(raw, 2, Len(raw) - 1)
    ELSE IF contains(raw, " #")
         THEN rstrip_set(SubSeq(raw, 1, index(raw, " #") - 1), Whitespace)
         ELSE raw

RECURSIVE parse_lines(_, _)
\* the loop of parse_env_file: result is the dict so far
parse_lines(lines, result) ==
    IF lines = << >> THEN result
    ELSE LET stripped == strip(lines[1])
             m == _LINE_RE(stripped)
         IN  IF stripped = "" \/ Char(stripped, 1) = "#" \/ ~m.found
             THEN parse_lines(Tail(lines), result)
             ELSE parse_lines(Tail(lines),
                      [k \in DOMAIN result \cup {m.value.key} |->
                          IF k = m.value.key THEN _unquote(strip(m.value.raw))
                          ELSE result[k]])

parse_env_file(text) == parse_lines(splitlines(text), << >>)

RECURSIVE join_lines(_, _)
join_lines(keys, data) ==
    IF keys = << >> THEN ""
    ELSE keys[1] \o "=" \o _format_env_value(data[keys[1]]) \o "\n"
         \o join_lines(Tail(keys), data)

FileStore_read(b, s) == IF s.path \in DOMAIN b THEN parse_env_file(b[s.path]) ELSE << >>

\* "\n".join(lines) + "\n" if lines else "", the lines sorted by key
FileStore_write(b, s, data) ==
    [p \in DOMAIN b \cup {s.path} |->
        IF p = s.path THEN join_lines(sorted(DOMAIN data), data) ELSE b[p]]

FileStore_get(b, s, key) ==
    LET data == FileStore_read(b, s)
    IN  IF key \in DOMAIN data THEN Some(data[key]) ELSE None

FileStore_set(b, s, key, value) ==
    LET data == FileStore_read(b, s)
    IN  FileStore_write(b, s, [k \in DOMAIN data \cup {key} |->
                                  IF k = key THEN value ELSE data[k]])

FileStore_delete(b, s, key) ==
    LET data == FileStore_read(b, s)
    IN  IF key \in DOMAIN data
        THEN FileStore_write(b, s, [k \in DOMAIN data \ {key} |-> data[k]])
        ELSE b

FileStore_list_keys(b, s) == sorted(DOMAIN FileStore_read(b, s))

FileStore_clear(b, s) == FileStore_write(b, s, << >>)

FileKeys == {"A", "B"}

ValueChars == {"a", "\"", "\\", "\n", "#", "="}

MaxValueLen == 2

RECURSIVE ValueStrings(_)
\* the strings of at most n characters of ValueChars
ValueStrings(n) ==
    IF n = 0 THEN {""} ELSE {""} \cup {c \o w : c \in ValueChars, w \in ValueStrings(n - 1)}

FileValues == ValueStrings(MaxValueLen)

MaxFileLen == 10

FileSet(s, key, value) ==
    /\ Len(FileStore_set(backend, s, key, value)[s.path]) <= MaxFileLen
    /\ backend' = FileStore_set(backend, s, key, value)
    /\ last' = Call("set", s, key, value)
    /\ UNCHANGED <<keyring, stores, task, out, procs>>

FileDelete(s, key) ==
    /\ backend' = FileStore_delete(backend, s, key)
    /\ last' = Call("delete", s, key, "")
    /\ UNCHANGED <<keyring, stores, task, out, procs>>

FileClear(s) ==
    /\ backend' = FileStore_clear(backend, s)
    /\ last' = Call("clear", s, "", "")
    /\ UNCHANGED <<keyring, stores, task, out, procs>>

NextFile ==
    \E s \in stores :
        \/ \E key \in FileKeys, value \in FileValues : FileSet(s, key, value)
        \/ \E key \in FileKeys : FileDelete(s, key)
        \/ FileClear(s)

\* FileStore(path=".env"), the file not yet there
InitFile ==
    /\ backend = << >>
    /\ stores = {[cls |-> "file", path |-> ".env"]}
    /\ keyring = << >>
    /\ last = NoCall
    /\ task = NoTask
    /\ out = << >>
    /\ procs = << >>

SpecFile == InitFile /\ [][NextFile]_vars

\* C24: after set(k, v) on a FileStore, get(k) returns v, list_keys() holds k
\* and every other key has the value it had, whatever the characters of v.
C24_FileSetGet ==
    [][\A s \in stores :
        last'.op = "set" =>
            /\ FileStore_get(backend', s, last'.key) = Some(last'.value)
            /\ InSeq(last'.key, FileStore_list_keys(backend', s))
            /\ \A j \in FileKeys \ {last'.key} :
                FileStore_get(backend', s, j) = FileStore_get(backend, s, j)]_vars

\* C25: for every store class and every name, project, domain and valid
\* semver version, the key build_key returns splits at the class's key
\* separator into exactly five segments.
C25_FiveSegments ==
    (Built /\ is_valid_semver(task.version)) => Len(split(out[1], Sep)) = 5

\* C26: with stores of one project and domain and different versions, after
\* any sequence of set, delete and clear every name for which one of the
\* stores returns a value from get is in list_keys(), and once clear() has
\* run on each of the stores no secret of the domain is left in the keyring.
C26_ManifestIndexesSecrets ==
    \A a \in stores, b \in stores :
        (stores = {a, b} /\ a.project = b.project /\ a.domain = b.domain) =>
            /\ \A k \in Keys : get(keyring, a, k).found => InSeq(k, list_keys(keyring, a))
            /\ \A s \in stores, k \in Keys : ~get(clear(clear(keyring, a), b), s, k).found

\* Every invocation has returned.
AllReturned == DOMAIN procs = Procs /\ \A p \in Procs : procs[p].pc = "done"

\* C27: two invocations against one project run concurrently, interleaved at
\* the keyring calls; once both have returned, the domain of each store is in
\* list_domains() if and only if list_keys() of the store is not empty.
C27_ConcurrentRegistry ==
    AllReturned =>
        \A s \in stores :
            InSeq(s.domain, list_domains(keyring, s)) <=> list_keys(keyring, s) # << >>

\* Texts that are no JSON: json.loads raises JSONDecodeError on each.
CorruptTexts == {"v", "[\"A\"", ""}

\* The keyring with the text in place of the entry (None: the entry is left alone).
overwritten(kr, service, username, text) ==
    IF text.found THEN set_password(kr, service, username, text.value) ELSE kr

CorruptStores == {s \in AllStores : s.version = DEFAULT_VERSION}

\* One KeychainStore on a keyring whose manifest entry, registry entry or
\* both were overwritten with a text that is no JSON; task keeps the texts.
InitCorrupt ==
    /\ backend = << >>
    /\ \E s \in CorruptStores,
          m \in {None} \cup {Some(x) : x \in CorruptTexts},
          r \in {None} \cup {Some(x) : x \in CorruptTexts} :
        /\ stores = {s}
        /\ \E kr \in {<< >>, set_with_domain_tracking(<< >>, s, "A", "1")} :
            keyring = overwritten(overwritten(kr, _service(s), _manifest_username(s, ""), m),
                                  _service(s), DOMAINS_KEY, r)
        /\ task = [op |-> "corrupt", manifest |-> m, registry |-> r]
    /\ last = NoCall
    /\ out = << >>
    /\ procs = << >>

SpecCorrupt == InitCorrupt /\ [][NextRegistry]_vars

CorruptManifest(kr, s) ==
    ManifestEntry(kr, s).found /\ ManifestEntry(kr, s).value \in CorruptTexts

CorruptRegistry(kr, s) ==
    RegistryEntry(kr, s).found /\ RegistryEntry(kr, s).value \in CorruptTexts

\* text is json.dumps of a list of strings in ascending order, none twice
SortedArray(text) ==
    /\ json_loads(text).ok
    /\ text = json_dumps(json_loads(text).list)
    /\ \A i \in 1..(Len(json_loads(text).list) - 1) :
        StrLess(json_loads(text).list[i], json_loads(text).list[i + 1])

\* C30: while the manifest entry is no JSON list_keys() is the empty list, and
\* while the registry entry is no JSON list_domains() is; a set (or
\* set_with_domain_tracking) in that state ends without an exception and
\* leaves the manifest as the list of the one name set; and every manifest a
\* store writes is a JSON array of names in ascending order, none twice.
C30_CorruptManifest ==
    [][\A s \in stores :
        /\ CorruptManifest(keyring, s) => list_keys(keyring, s) = << >>
        /\ CorruptManifest(keyring', s) => list_keys(keyring', s) = << >>
        /\ CorruptRegistry(keyring, s) => list_domains(keyring, s) = << >>
        /\ CorruptRegistry(keyring', s) => list_domains(keyring', s) = << >>
        /\ (CorruptManifest(keyring, s) /\ last'.op \in {"set", "set_with_domain_tracking"}) =>
            /\ out' = <<"">>
            /\ ManifestEntry(keyring', s) = Some(json_dumps(<<last'.key>>))
            /\ list_keys(keyring', s) = <<last'.key>>
            /\ get(keyring', s, last'.key) = Some(last'.value)
        /\ (ManifestEntry(keyring', s) # ManifestEntry(keyring, s)
            /\ ManifestEntry(keyring', s).found) =>
               SortedArray(ManifestEntry(keyring', s).value)]_vars

\* The manifest was no JSON, the registry still is none, and a set has
\* left the manifest as the list of its name.
C30_Witness ==
    /\ task.op = "corrupt" /\ task.manifest.found
    /\ last.op = "set"
    /\ \E s \in stores :
        /\ CorruptRegistry(keyring, s)
        /\ list_domains(keyring, s) = << >>
        /\ ManifestEntry(keyring, s) = Some(json_dumps(<<last.key>>))
        /\ \E k \in Keys \ {last.key} : get(keyring, s, k).found

====
